---- MODULE Spec2Model ----
(***************************************************************************)
(* A state-machine model of mana's request orchestration                   *)
(* (Mana.prototype.send and its helpers all, fetching, push, downgrade and *)
(* fireforget), taken from the richest revision of the source,             *)
(* src/unnamed/part_001.                                                   *)
(*                                                                         *)
(* JavaScript runs one handler at a time, so every action below is one     *)
(* handler run to completion: a call of send, a setImmediate callback, the *)
(* transport's answer (parse), a back off timer.  The callbacks that all() *)
(* invokes are run one per step (Invoke), because a callback may call send *)
(* again from inside; while they run no other handler is scheduled.        *)
(*                                                                         *)
(* Specifications: Spec (send), OkSpec (send with servers that answer 200  *)
(* only), ChainSpec (downgrade on any list), TokenizerSpec, TokenSpec and  *)
(* HeaderSpec (the token pool, the quota fields and the default headers),  *)
(* TwinSpec (fireforget with either cache interface), LookupSpec (send's   *)
(* lookup callback under any cache answer), OptionSpec (the back off       *)
(* configuration send makes from any options).                             *)
(***************************************************************************)
EXTENDS Integers, Sequences, FiniteSets, TLC

\* ------------------------------------------------------------ bounds

\* Number of send calls (logical requests) in one behaviour.
MaxReq == 2

\* this.retries of the modelled client: the allowed back off attempts
\* (Mana.prototype.retries is 3 unless the client overrides it).
Retries == 1

\* Longest list of roots handed to downgrade on its own.
MaxChain == 3

\* ------------------------------------------------- program constants

\* parse forces this statusCode on a transport error.
ForcedStatus == 500

StatusOK == 200
StatusNotModified == 304
StatusNotFound == 404
\* Statuses that are none of 200, 304, 404 (here a server error).
OtherStatuses == {503}

\* ------------------------------------------------------------ values

Undefined == "undefined"
Null == "null"

ReqIds == 1..MaxReq

\* Request identifiers (args.str).
Urids == {"/x", "/y"}

\* options.method as the caller passes it; NoMethod: the option is absent.
NoMethod == "absent"
MethodInputs == {NoMethod, "GET", "post", "HEAD"}

\* String.prototype.toUpperCase on the method names used here.
ToUpperCase(s) ==
    CASE s = "get" -> "GET"
      [] s = "post" -> "POST"
      [] s = "head" -> "HEAD"
      [] OTHER -> s

\* options.method = ('method' in options ? options.method : 'GET').toUpperCase()
CanonicalMethod(m) == ToUpperCase(IF m = NoMethod THEN "GET" ELSE m)

\* The headers object: the properties parse and send read or write.
\*   Accept, accept : the caller's Accept header under the exact / lower-case key
\*   IfNoneMatch    : the validator send adds on a cache hit
NoHeaders == [Accept |-> Undefined, accept |-> Undefined, IfNoneMatch |-> Undefined]
HeaderInputs ==
    { NoHeaders,
      [NoHeaders EXCEPT !.Accept = "text/html"],
      [NoHeaders EXCEPT !.accept = "application/json"] }

\* ~value.indexOf(word): whether the header value contains the word.
Contains(value, word) ==
    CASE value = "text/html" -> word \in {"text", "html", "text/html"}
      [] value = "application/json" -> word \in {"application", "json", "application/json"}
      [] OTHER -> FALSE

\* The forEach over the default headers: Accept is filled only when neither
\* 'Accept' nor 'accept' is a key of options.headers.
FillDefaults(h) ==
    IF h.Accept # Undefined \/ h.accept # Undefined
    THEN h
    ELSE [h EXCEPT !.Accept = "application/json"]

\* Response bodies: a JSON text, a text that is not JSON, and a body that is
\* not a string.
Bodies == {"j1", "bad", "obj"}
IsString(b) == b # "obj"
\* A JSON.parse that accepts every text.
ParsesAnything(b) == TRUE
\* JSON.parse(body) does not throw.
Parsable(b) == b = "j1"
\* JSON.parse on the parsable body.
JSONParse(b) == CASE b = "j1" -> "d1" [] OTHER -> Undefined

Etags == {Undefined, "v1"}

\* What the transport yields: an error, or a response.  These responses
\* carry no rate limit headers, which leaves the client's quota fields as
\* they are; the responses that carry them are handled by ParseQuota.
TransportError == [error |-> TRUE, status |-> 0, body |-> Undefined, etag |-> Undefined]
Res(s, b, e) == [error |-> FALSE, status |-> s, body |-> b, etag |-> e]
Answers ==
    {TransportError}
    \cup {Res(StatusOK, b, e) : b \in Bodies, e \in Etags}
    \cup {Res(StatusNotFound, b, Undefined) : b \in Bodies}
    \cup {Res(StatusNotModified, "", Undefined)}
    \cup {Res(s, "bad", Undefined) : s \in OtherStatuses}

\* The (err, data) pair an Assign instance hands to all().
\*   err     : "none", or the kind of Error
\*   code    : err.statusCode
\*   errdata : err.data
\*   data    : the data argument
\*   res     : for HEAD the status of the response object delivered with the data
NoOutcome == [err |-> "pending", code |-> 0, errdata |-> Undefined, data |-> Undefined, res |-> 0]
Success(d) == [NoOutcome EXCEPT !.err = "none", !.data = d]
HeadSuccess(s, d) == [NoOutcome EXCEPT !.err = "none", !.data = d, !.res = s]
TransportFailure == [NoOutcome EXCEPT !.err = "transport", !.code = ForcedStatus]
NotFound(d) == [NoOutcome EXCEPT !.err = "notfound", !.code = StatusNotFound, !.errdata = d]
Exhausted == [NoOutcome EXCEPT !.err = "exhausted"]

NoDelivery == [out |-> NoOutcome, by |-> 0]

\* Cache entries: what the backend stores under a key.
NoEntry == [etag |-> Undefined, data |-> Undefined]

\* The client's configuration: this.api and this.mirrors.
Api == "https://a"
Mirrors == <<"https://b", Null, "https://b", "https://a">>

\* ------------------------------------------------------------- state

VARIABLES
    fnqueue,    \* mana.fnqueue: urid -> list of queued callbacks ( <<>>: no entry )
    issued,     \* number of send calls made; request r's callback is callback r
    arg,        \* r -> [urid, method]: args.str and options.method of request r
    opts,       \* r -> the options object request r was sent with (0: not sent);
                \* an object is named after the first request sent with it
    hdrs,       \* o -> options.headers of options object o
    backoff,    \* o -> options.backoff: the back off object, named after the
                \* send call that created it
    uri,        \* o -> options.uri, as downgraded resolved it last
    timer,      \* r -> the back off object r's pending timer holds (0: none)
    pc,         \* r -> where request r is
    chain,      \* r -> the mirrors left in downgrade's closure
    attempt,    \* b -> the attempt property of back off object b
    cache,      \* r -> the cache entry send's lookup found (NoEntry: undefined)
    tried,      \* r -> the roots of the transport calls made for r, in order
    result,     \* r -> the (err, data) pair r's Assign handed to all()
    joined,     \* r -> fnqueue[urid] as send found it (history)
    during,     \* r -> the list being drained when r was sent from a callback (history)
    delivered,  \* c -> what callback c was invoked with, and by whose completion
    invoked,    \* the callbacks invoked so far, in order
    drainQ,     \* the callbacks all() has still to invoke
    drainAll,   \* the list all() detached
    drainOut,   \* the pair all() is delivering, and whose completion it is
    running,    \* the callback that is executing (0: none)
    cacheKind,  \* mana.cache: "none", or a backend with a "sync" or "async" interface;
                \* the modelled client has a synchronous backend
    store,      \* the backend's content: key -> entry; it holds an entry for "/x"
    immq,       \* the setImmediate queue of fireforget
    \* downgrade called on its own, with any list of roots:
    input,      \* the list passed to downgrade
    rest,       \* the mirrors left in downgrade's closure
    handed,     \* what recursive handed to fn so far, and what fn did with it
    cpc,        \* "off": not used, "new": before the call, "run": downgrade was called
    \* the token pool and the client's quota fields:
    tokens,     \* mana.tokens: the configured list, then the pool tokenizer made
    tpc,        \* "off": not used, "raw": before tokenizer, "pool": after it
    client,     \* mana.authorization, mana.ratelimit, mana.remaining, mana.ratereset
    now,        \* the clock, in epoch seconds
    rolled,     \* what the last call of roll returned ("none": not called)
    sent,       \* the headers of the last request send prepared
    handled,    \* the answer parse handled last ( <<>>: none yet )
    \* fireforget run against a synchronous and an asynchronous backend:
    jobsRun,    \* the jobs handed to fireforget so far
    stores,     \* interface -> the content of the backend with that interface
    founds,     \* interface -> what the last 'get' handed to its callback
    \* the callback send hands to fireforget, called with any arguments:
    lkGiven,    \* the (err, cache) pair the callback is called with
    lkpc,       \* "off": not used, "new": before the call, "called", "answered"
    lkCache,    \* the callback's variable `cache` after its test
    lkHeader,   \* options.headers['If-None-Match']
    lkAnswer,   \* the answer parse got for the request ( <<>>: none yet )
    lkBranch,   \* the branch parse took for it
    \* the back off configuration send puts on an options object:
    options,    \* the options object passed to send
    opc         \* "off": not used, "new": before send, "sent": after it

mainVars == <<fnqueue, issued, arg, opts, hdrs, backoff, uri, timer, pc, chain,
              attempt, cache, tried, result, joined, during, delivered, invoked,
              drainQ, drainAll, drainOut, running, cacheKind, store, immq>>

chainVars == <<input, rest, handed, cpc>>

tokenVars == <<tokens, tpc, client, now, rolled, sent, handled>>

twinVars == <<jobsRun, stores, founds>>

lookupVars == <<lkGiven, lkpc, lkCache, lkHeader, lkAnswer, lkBranch>>

optionVars == <<options, opc>>

vars == <<mainVars, chainVars, tokenVars, twinVars, lookupVars, optionVars>>

NoArg == [urid |-> Undefined, method |-> Undefined]
NoDuring == [by |-> 0, list |-> <<>>]
NoUri == [root |-> Undefined, urid |-> Undefined]

\* url.resolve(root, args.str), kept as the pair it was resolved from.
Resolve(root, u) == [root |-> root, urid |-> u]

Range(s) == {s[i] : i \in 1..Len(s)}

InitMain ==
    /\ fnqueue = [u \in Urids |-> <<>>]
    /\ issued = 0
    /\ arg = [r \in ReqIds |-> NoArg]
    /\ opts = [r \in ReqIds |-> 0]
    /\ hdrs = [o \in ReqIds |-> NoHeaders]
    /\ backoff = [o \in ReqIds |-> 0]
    /\ uri = [o \in ReqIds |-> NoUri]
    /\ timer = [r \in ReqIds |-> 0]
    /\ pc = [r \in ReqIds |-> "new"]
    /\ chain = [r \in ReqIds |-> <<>>]
    /\ attempt = [b \in ReqIds |-> 0]
    /\ cache = [r \in ReqIds |-> NoEntry]
    /\ tried = [r \in ReqIds |-> <<>>]
    /\ result = [r \in ReqIds |-> NoOutcome]
    /\ joined = [r \in ReqIds |-> <<>>]
    /\ during = [r \in ReqIds |-> NoDuring]
    /\ delivered = [r \in ReqIds |-> NoDelivery]
    /\ invoked = <<>>
    /\ drainQ = <<>>
    /\ drainAll = <<>>
    /\ drainOut = NoDelivery
    /\ running = 0
    /\ cacheKind = "sync"
    /\ store = [u \in Urids |->
                  IF u = "/x" THEN [etag |-> "v0", data |-> "d0"] ELSE NoEntry]
    /\ immq = <<>>

\* No callback is executing: the event loop may run the next handler.
Idle == drainQ = <<>> /\ running = 0

\* ---------------------------------------------------- the callback queue

\* Mana.prototype.fetching: the list queued for the urid ( <<>>: undefined ).
Fetching(q) == q

\* A push that puts the callback in front of the list.
PushFront(q, fn) == <<fn>> \o q

\* Mana.prototype.push: a new list, or the callback appended to the list.
Push(q, fn) == IF q = <<>> THEN <<fn>> ELSE Append(q, fn)

\* An all() that leaves the entry in fnqueue while it calls the callbacks.
DetachedKept(q) == q

\* all(): `delete mana.fnqueue[urid]`, what is left of the entry once the
\* list has been taken, before the first callback runs.
Detached(q) == <<>>

\* A send that never finds a request to piggyback on.
PiggybackNever(method, q) == FALSE

\* send's test `options.method === 'GET' && this.fetching(args.str)`.
Piggyback(method, q) == method = "GET" /\ Fetching(q) # <<>>

\* An all that takes the list without looking whether there is one.
AllUntested(u, r, out) ==
    /\ fnqueue' = [fnqueue EXCEPT ![u] = Detached(@)]
    /\ drainQ' = fnqueue[u]
    /\ drainAll' = fnqueue[u]
    /\ drainOut' = [out |-> out, by |-> r]

\* all(urid)(err, data) called by request r's Assign with the pair `out`:
\* without an entry it only logs; otherwise it takes the list, deletes the
\* entry and starts invoking the callbacks.
All(u, r, out) ==
    IF fnqueue[u] = <<>>
    THEN UNCHANGED <<fnqueue, drainQ, drainAll, drainOut>>
    ELSE /\ fnqueue' = [fnqueue EXCEPT ![u] = Detached(@)]
         /\ drainQ' = fnqueue[u]
         /\ drainAll' = fnqueue[u]
         /\ drainOut' = [out |-> out, by |-> r]

\* queue.forEach: the next callback of the detached list is invoked with the
\* pair; the callback before it has returned.
Invoke ==
    /\ drainQ # <<>>
    /\ LET fn == Head(drainQ) IN
        /\ delivered' = [delivered EXCEPT ![fn] = drainOut]
        /\ invoked' = Append(invoked, fn)
        /\ running' = fn
    /\ drainQ' = Tail(drainQ)
    /\ UNCHANGED <<fnqueue, issued, arg, opts, hdrs, backoff, uri, timer, pc, chain,
                   attempt, cache, tried, result, joined, during, drainAll, drainOut,
                   cacheKind, store, immq, chainVars, tokenVars, twinVars,
                   lookupVars, optionVars>>

\* The last callback of the list returns, and with it all() and the handler
\* that called it.
Return ==
    /\ drainQ = <<>>
    /\ running # 0
    /\ running' = 0
    /\ drainAll' = <<>>
    /\ drainOut' = NoDelivery
    /\ UNCHANGED <<fnqueue, issued, arg, opts, hdrs, backoff, uri, timer, pc, chain,
                   attempt, cache, tried, result, joined, during, delivered, invoked,
                   drainQ, cacheKind, store, immq, chainVars, tokenVars, twinVars,
                   lookupVars, optionVars>>

\* ------------------------------------------------------- the mirror chain

Truthy(x) == x \notin {Null, Undefined, ""}

\* The index of the first occurrence: Array.prototype.indexOf.
IndexOf(ms, x) == CHOOSE i \in 1..Len(ms) : ms[i] = x /\ \A j \in 1..(i - 1) : ms[j] # x

RECURSIVE FilterFrom(_, _)
FilterFrom(ms, i) ==
    IF i > Len(ms) THEN <<>>
    ELSE (IF Truthy(ms[i]) /\ IndexOf(ms, ms[i]) = i THEN <<ms[i]>> ELSE <<>>)
         \o FilterFrom(ms, i + 1)

\* A downgrade that does not filter the list.
DedupeNone(ms) == ms

\* downgrade's mirrors.filter(dedupe).
Dedupe(ms) == FilterFrom(ms, 1)

\* send: mirrors = [ options.api || this.api ].concat(this.mirrors || [])
MirrorList == <<Api>> \o Mirrors

\* downgrade: source = mirrors[0]
Source(ms) == ms[1]

\* --------------------------------------------------------- the next step

\* What a handler decides for its request: where the request goes, the
\* state of its closure, the attempt it leaves on the back off object, the
\* root downgraded resolved options.uri from (Undefined: it did not run),
\* the transport call it makes, the pair it hands to its Assign and the
\* fire-and-forget job it schedules.
Step(p, ch, n, root, call, out, jobs) ==
    [pc |-> p, chain |-> ch, attempt |-> n, root |-> root, call |-> call,
     out |-> out, jobs |-> jobs]

\* options.backoff of request r, as the handler reads it: the object the
\* options object of r refers to at that moment.
BackoffOf(r) == backoff[opts[r]]

\* back(toTheFuture, options.backoff): the attempt is counted on the object;
\* past the allowed retries toTheFuture gets an error at once and destroys
\* the Assign with 'Failed to process request'; otherwise a timer is set.
Back(r, ch, root) ==
    LET n == attempt[BackoffOf(r)] + 1 IN
    IF n > Retries
    THEN Step("done", ch, n, root, <<>>, Exhausted, <<>>)
    ELSE Step("backoff", ch, n, root, <<>>, NoOutcome, <<>>)

\* A recursive that reads the first mirror without shifting it off.
CandidateNoShift(ch, source) ==
    IF ch # <<>> /\ Truthy(Head(ch))
    THEN [err |-> FALSE, root |-> Head(ch), rest |-> ch]
    ELSE [err |-> TRUE, root |-> source, rest |-> ch]

\* downgrade's recursive(): the next mirror is shifted off the list and
\* handed to fn; with none left fn gets the error and the source.
Candidate(ch, source) ==
    IF ch # <<>> /\ Truthy(Head(ch))
    THEN [err |-> FALSE, root |-> Head(ch), rest |-> Tail(ch)]
    ELSE [err |-> TRUE, root |-> source, rest |-> IF ch = <<>> THEN ch ELSE Tail(ch)]

\* A downgraded that requests whatever it is handed.
DowngradedAlwaysRequests(err) == "request"

\* downgraded(err, root, next): a request without an error, the back off
\* with one.
Downgraded(err) == IF err THEN "back" ELSE "request"

\* recursive() followed by downgraded() for request r.
Recursive(r, ch) ==
    LET c == Candidate(ch, Source(MirrorList)) IN
    IF Downgraded(c.err) = "request"
    THEN Step("transport", c.rest, attempt[BackoffOf(r)], c.root,
              <<Resolve(c.root, arg[r].urid)>>, NoOutcome, <<>>)
    ELSE Back(r, c.rest, c.root)

\* A handler's decision applied to the state of request r.
Apply(r, s) ==
    /\ pc' = [pc EXCEPT ![r] = s.pc]
    /\ chain' = [chain EXCEPT ![r] = s.chain]
    /\ attempt' = [attempt EXCEPT ![BackoffOf(r)] = s.attempt]
    /\ uri' = IF s.root = Undefined THEN uri
              ELSE [uri EXCEPT ![opts[r]] = Resolve(s.root, arg[r].urid)]
    /\ timer' = [timer EXCEPT ![r] = IF s.pc = "backoff" THEN BackoffOf(r) ELSE 0]
    /\ tried' = [tried EXCEPT ![r] = @ \o s.call]
    /\ result' = [result EXCEPT ![r] = s.out]
    /\ IF s.pc = "done"
       THEN All(arg[r].urid, r, s.out)
       ELSE UNCHANGED <<fnqueue, drainQ, drainAll, drainOut>>

\* ----------------------------------------------------------- fireforget

\* A job fireforget hands to setImmediate: a cache get for request r, or a
\* cache set of an entry under a key.
GetJob(r, key) == [op |-> "get", r |-> r, key |-> key, etag |-> Undefined, data |-> Undefined]
SetJob(r, key, etag, data) == [op |-> "set", r |-> r, key |-> key, etag |-> etag, data |-> data]

\* The receiver (`this`) of the function fireforget hands to setImmediate:
\* timers call it on their own Immediate (or Timeout) object, not on the
\* Mana instance fireforget was called on.
ImmediateReceiver == "Immediate"

\* An `immediate` that knows the Mana instance but only the synchronous
\* interface.
CacheOfSyncOnly(receiver, kind) == IF kind = "sync" THEN kind ELSE "none"

\* receiver.cache, as `immediate` reads it through `this.cache`: the backend
\* is a property of the Mana instance only.
CacheOf(receiver, kind) == IF receiver = "Mana" THEN kind ELSE "none"

\* What the 'get' branch hands to its callback: cache.get(key) of a backend
\* whose get takes one argument, cache.get(key, fn) otherwise, nothing
\* without a cache.  Both interfaces answer with the stored entry.
Lookup(kind, st, key) ==
    CASE kind = "sync" -> st[key]
      [] kind = "async" -> st[key]
      [] OTHER -> NoEntry

\* The 'set' branch: cache.set(key, object) or cache.set(key, object, fn).
Stored(kind, st, job) ==
    IF kind \in {"sync", "async"}
    THEN [st EXCEPT ![job.key] = [etag |-> job.etag, data |-> job.data]]
    ELSE st

\* -------------------------------------------------------------- parse

\* A test that lets every 304 through.
InvalidStatusBut304(s) == s \notin {StatusOK, StatusNotFound, StatusNotModified}

NoStatusInvalid(s) == FALSE

\* `res.statusCode !== 200 && res.statusCode !== 404`: an unknown response,
\* try a different server.
InvalidStatus(s) == s # StatusOK /\ s # StatusNotFound

\* The test in front of JSON.parse, once options.headers.Accept is a string.
ShouldParse(r, body) ==
    /\ IsString(body)
    /\ ~Contains(hdrs[opts[r]].Accept, "text")
    /\ ~Contains(hdrs[opts[r]].Accept, "html")
    /\ arg[r].method # "HEAD"

\* `options.headers.Accept.indexOf` is evaluated for every string body; it
\* throws a TypeError when the headers have no 'Accept' property.
Throws(r, body) == IsString(body) /\ hdrs[opts[r]].Accept = Undefined

\* A test that caches the answer to any method.
ShouldStoreAnyMethod(r, a) == a.etag # Undefined

\* `res.headers.etag && 'GET' === options.method`: the answer is cached.
ShouldStore(r, a) == a.etag # Undefined /\ arg[r].method = "GET"

\* A parse that leaves the write to the cache write it scheduled.
WrittenAfterStore(r, a, data) ==
    IF a.etag # Undefined /\ arg[r].method = "GET" THEN NoOutcome
    ELSE IF arg[r].method # "HEAD" THEN Success(data) ELSE HeadSuccess(a.status, data)

\* The pair parse writes to the Assign at its end: the data, or for HEAD
\* the response with the data.
Written(r, a, data) ==
    IF arg[r].method # "HEAD" THEN Success(data) ELSE HeadSuccess(a.status, data)

\* The branch parse takes for an answer, given whether send's lookup kept a
\* cache entry: a transport error destroys the request, a 304 with an entry
\* is answered from the cache, any other status than 200 and 404 moves on
\* to the next mirror, the rest is read.
Branch(a, hit) ==
    IF a.error THEN "failure"
    ELSE IF a.status = StatusNotModified /\ hit THEN "cached"
    ELSE IF InvalidStatus(a.status) THEN "next"
    ELSE "read"

\* parse(err, res, body): the handler of the transport's answer `a` for r.
Classify(r, a) ==
    LET data == IF ShouldParse(r, a.body) THEN JSONParse(a.body) ELSE a.body
        here == Step("done", chain[r], attempt[BackoffOf(r)], Undefined, <<>>, NoOutcome, <<>>)
        branch == Branch(a, cache[r] # NoEntry)
    IN
    CASE branch = "failure" ->
            [here EXCEPT !.out = TransportFailure]
      [] branch = "cached" ->
            [here EXCEPT !.out = Success(cache[r].data)]
      [] branch = "next" ->
            Recursive(r, chain[r])
      [] OTHER ->
            IF Throws(r, a.body)
            THEN [here EXCEPT !.pc = "thrown"]
            ELSE IF ShouldParse(r, a.body) /\ ~Parsable(a.body)
            THEN Recursive(r, chain[r])
            ELSE IF a.status = StatusNotFound /\ arg[r].method # "HEAD"
            THEN [here EXCEPT !.out = NotFound(data)]
            ELSE [here EXCEPT
                    !.out = Written(r, a, data),
                    !.jobs = IF ShouldStore(r, a)
                             THEN <<SetJob(r, arg[r].urid, a.etag, data)>>
                             ELSE <<>>]

\* ------------------------------------------------------------- actions

\* Mana.prototype.send, up to its return: the options object gets its
\* method, headers and a new back off object, the callback is queued; a
\* GET for an urid that is being fetched stops there, any other request
\* fills the default headers and schedules the cache lookup.  The caller
\* passes a new options object (o = 0), or an object it passed before; the
\* latter carries the method and headers the earlier call left on it.
SendCall(u, m, h, o) ==
    LET r == issued + 1
        ob == IF o = 0 THEN r ELSE o
        method == CanonicalMethod(IF o = 0 THEN m ELSE arg[o].method)
        given == IF o = 0 THEN h ELSE hdrs[o]
        q == fnqueue[u]
        piggy == Piggyback(method, q)
    IN
    /\ issued < MaxReq
    /\ o # 0 => (o <= issued /\ opts[o] = o /\ m = NoMethod /\ h = NoHeaders)
    /\ issued' = r
    /\ arg' = [arg EXCEPT ![r] = [urid |-> u, method |-> method]]
    /\ opts' = [opts EXCEPT ![r] = ob]
    /\ backoff' = [backoff EXCEPT ![ob] = r]
    /\ joined' = [joined EXCEPT ![r] = q]
    /\ during' = [during EXCEPT ![r] =
                    IF running # 0 THEN [by |-> running, list |-> drainAll] ELSE NoDuring]
    /\ fnqueue' = [fnqueue EXCEPT ![u] = Push(q, r)]
    /\ pc' = [pc EXCEPT ![r] = IF piggy THEN "waiting" ELSE "lookup"]
    /\ hdrs' = [hdrs EXCEPT ![ob] = IF piggy THEN given ELSE FillDefaults(given)]
    /\ immq' = IF piggy THEN immq ELSE Append(immq, GetJob(r, u))
    /\ UNCHANGED <<uri, timer, chain, attempt, cache, tried, result, delivered,
                   invoked, drainQ, drainAll, drainOut, running, cacheKind, store,
                   chainVars, tokenVars, twinVars,
                   lookupVars, optionVars>>

\* send called by the application from a handler of its own.
Send(u, m, h, o) == Idle /\ SendCall(u, m, h, o)

\* send called from inside the callback that all() is executing.
ReentrantSend(u, m, h, o) == running # 0 /\ SendCall(u, m, h, o)

\* fireforget's `immediate`, the oldest job of the setImmediate queue.  A
\* get answers send's callback, which notes the entry, adds If-None-Match
\* and calls downgrade with the mirrors; a set writes the entry.
Immediate ==
    /\ Idle
    /\ immq # <<>>
    /\ LET job == Head(immq)
           kind == CacheOf(ImmediateReceiver, cacheKind)
           r == job.r
           found == Lookup(kind, store, job.key)
       IN
       /\ immq' = Tail(immq)
       /\ IF job.op = "get"
          THEN /\ cache' = [cache EXCEPT ![r] = found]
               /\ hdrs' = [hdrs EXCEPT ![opts[r]].IfNoneMatch =
                             IF found # NoEntry THEN found.etag ELSE @]
               /\ Apply(r, Recursive(r, Dedupe(MirrorList)))
               /\ store' = store
          ELSE /\ store' = Stored(kind, store, job)
               /\ UNCHANGED <<cache, hdrs, pc, chain, attempt, uri, timer, tried,
                              result, fnqueue, drainQ, drainAll, drainOut>>
    /\ UNCHANGED <<issued, arg, opts, backoff, joined, during, delivered, invoked,
                   running, cacheKind, chainVars, tokenVars, twinVars,
                   lookupVars, optionVars>>

\* The transport answers the call request r is waiting for: parse runs.
Parse(r, a) ==
    /\ Idle
    /\ pc[r] = "transport"
    /\ LET s == Classify(r, a) IN
        /\ Apply(r, s)
        /\ immq' = immq \o s.jobs
    /\ UNCHANGED <<issued, arg, opts, hdrs, backoff, cache, joined, during,
                   delivered, invoked, running, cacheKind, store, chainVars, tokenVars, twinVars,
                   lookupVars, optionVars>>

\* A toTheFuture that starts over with a rebuilt chain.
BackoffFireRebuilds(r) ==
    /\ Idle
    /\ pc[r] = "backoff"
    /\ backoff' = [backoff EXCEPT ![opts[r]] = timer[r]]
    /\ pc' = [pc EXCEPT ![r] = "transport"]
    /\ timer' = [timer EXCEPT ![r] = 0]
    /\ tried' = [tried EXCEPT ![r] = Append(@, uri[opts[r]])]
    /\ chain' = [chain EXCEPT ![r] = Tail(Dedupe(MirrorList))]
    /\ UNCHANGED <<fnqueue, issued, arg, opts, hdrs, uri, attempt, cache,
                   result, joined, during, delivered, invoked, drainQ, drainAll,
                   drainOut, running, cacheKind, store, immq, chainVars, tokenVars, twinVars,
                   lookupVars, optionVars>>

\* The back off timer of request r fires: toTheFuture puts the object the
\* timer held back on the options and requests options.uri again.
BackoffFire(r) ==
    /\ Idle
    /\ pc[r] = "backoff"
    /\ backoff' = [backoff EXCEPT ![opts[r]] = timer[r]]
    /\ pc' = [pc EXCEPT ![r] = "transport"]
    /\ timer' = [timer EXCEPT ![r] = 0]
    /\ tried' = [tried EXCEPT ![r] = Append(@, uri[opts[r]])]
    /\ UNCHANGED <<fnqueue, issued, arg, opts, hdrs, uri, chain, attempt, cache,
                   result, joined, during, delivered, invoked, drainQ, drainAll,
                   drainOut, running, cacheKind, store, immq, chainVars, tokenVars, twinVars,
                   lookupVars, optionVars>>

Next ==
    \/ \E u \in Urids, m \in MethodInputs, h \in HeaderInputs, o \in 0..MaxReq :
          Send(u, m, h, o)
    \/ \E u \in Urids, m \in MethodInputs, h \in HeaderInputs, o \in 0..MaxReq :
          ReentrantSend(u, m, h, o)
    \/ Immediate
    \/ \E r \in ReqIds, a \in Answers : Parse(r, a)
    \/ \E r \in ReqIds : BackoffFire(r)
    \/ Invoke
    \/ Return

\* ------------------------------------------------- tokens and quota
\*
\* The Token class, tokenizer and roll are not part of the sources at hand
\* (only their tests are): they are modelled from section 4.1 of the
\* specification and from what the tests pin down.

\* Longest tokens list a client is configured with.
MaxTokens == 3
\* Largest value of a rate limit header.
MaxQuota == 1
\* Last value of the clock.
MaxTime == 2

\* The number Infinity: above every quota value and every time.
Infinity == MaxQuota + MaxTime + 1

Secrets == {"foo", "bar"}

\* 'token ' + secret
Authorization(secret) == "token " \o secret

\* new Token(secret): the quota fields start unbounded.
Token(secret) ==
    [kind |-> "Token", secret |-> secret, authorization |-> Authorization(secret),
     ratelimit |-> Infinity, remaining |-> Infinity, ratereset |-> Infinity]

\* The entries of a configured tokens list: undefined, a secret string, or
\* a Token instance.
UndefinedEntry == [Token(Undefined) EXCEPT !.kind = "undefined", !.authorization = Undefined]
StringEntry(secret) == [Token(secret) EXCEPT !.kind = "string", !.authorization = Undefined]
TokenEntries ==
    {UndefinedEntry} \cup {StringEntry(s) : s \in Secrets} \cup {Token(s) : s \in Secrets}
TokenLists == UNION {[1..n -> TokenEntries] : n \in 0..MaxTokens}

\* The token never received a quota update.
Pristine(t) ==
    t.ratelimit = Infinity /\ t.remaining = Infinity /\ t.ratereset = Infinity

\* An available that only counts the remaining calls.
AvailableByRemaining(t, n) == t.remaining > 0

\* An available that takes the reset time itself as still in the window.
AvailableAfterReset(t, n) == t.remaining > 0 \/ n > t.ratereset \/ Pristine(t)

\* Token.prototype.available at time n.
Available(t, n) == t.remaining > 0 \/ n >= t.ratereset \/ Pristine(t)

\* Once the window has reset the token has its full rate limit again.
Renewed(t, n) == IF n >= t.ratereset THEN [t EXCEPT !.remaining = t.ratelimit] ELSE t

\* A tokenizer that keeps every entry of the list.
TokenizerKeepsAll(list) ==
    [i \in 1..Len(list) |->
        IF list[i].kind = "Token" THEN list[i] ELSE Token(list[i].secret)]

RECURSIVE FirstOfEach(_, _)
FirstOfEach(ts, i) ==
    IF i > Len(ts) THEN <<>>
    ELSE (IF \A j \in 1..(i - 1) : ts[j].authorization # ts[i].authorization
          THEN <<ts[i]>> ELSE <<>>)
         \o FirstOfEach(ts, i + 1)

\* Mana.prototype.tokenizer on this.tokens: undefined entries are dropped,
\* strings become Tokens, Tokens are kept, one Token is left per secret.
Tokenizer(list) ==
    LET defined == SelectSeq(list, LAMBDA e : e.kind # "undefined")
        made == [i \in 1..Len(defined) |->
                    IF defined[i].kind = "Token" THEN defined[i]
                    ELSE Token(defined[i].secret)]
    IN FirstOfEach(made, 1)

\* A write of the observed quota onto every token of the pool.
ApplyToAll(pool, c) ==
    [i \in 1..Len(pool) |->
        [pool[i] EXCEPT !.ratelimit = c.ratelimit, !.remaining = c.remaining,
                        !.ratereset = c.ratereset]]

\* roll, first part: the client's quota fields are written onto the token
\* whose authorization is the client's.
ApplyObservedQuota(pool, c) ==
    [i \in 1..Len(pool) |->
        IF pool[i].authorization = c.authorization
        THEN [pool[i] EXCEPT !.ratelimit = c.ratelimit, !.remaining = c.remaining,
                             !.ratereset = c.ratereset]
        ELSE pool[i]]

\* The order roll sorts by: more remaining first, then the higher rate limit.
Better(a, b) ==
    \/ a.remaining > b.remaining
    \/ a.remaining = b.remaining /\ a.ratelimit > b.ratelimit

\* A selection that takes any available token.
BestIsAny(pool, n) == {i \in 1..Len(pool) : Available(pool[i], n)}

\* roll, second part: the available tokens no available token is better than.
Best(pool, n) ==
    {i \in 1..Len(pool) :
        /\ Available(pool[i], n)
        /\ \A j \in 1..Len(pool) : Available(pool[j], n) => ~Better(pool[j], pool[i])}

\* The rate limit headers of a response: the names they go by and the value
\* of each ( <<>>: the header is absent ).
HeaderNames == {"x-rate-limit", "x-ratelimit"}
HeaderValues == {<<>>} \cup {<<v>> : v \in 0..MaxQuota}
RateHeaders ==
    {q \in [name : HeaderNames, limit : HeaderValues, remaining : HeaderValues,
            reset : HeaderValues] :
        q.name = "x-ratelimit" =>
            q.limit # <<>> /\ q.remaining = q.limit /\ q.reset = q.limit}

\* The answers parse tells apart before it reads the rate limit headers.
QuotaAnswers ==
    {TransportError, Res(StatusOK, "j1", Undefined), Res(StatusOK, "bad", Undefined),
     Res(StatusNotFound, "j1", Undefined), Res(StatusNotModified, "", Undefined)}

\* The headers each answer is tried with: every combination where parse
\* reads them, one full set where it returns before (an error, a status
\* other than 200 and 404).
FullHeaders ==
    [name |-> "x-rate-limit", limit |-> <<MaxQuota>>, remaining |-> <<0>>,
     reset |-> <<MaxQuota>>]
HeadersWith(a) ==
    IF a.error \/ InvalidStatus(a.status) THEN {FullHeaders} ELSE RateHeaders

\* res.headers[name]
HeaderOf(q, name, field) == IF q.name = name THEN q[field] ELSE <<>>

\* `+value || old`: NaN (of an absent header) and 0 are falsy.
OrElse(value, old) == IF value = <<>> \/ value[1] = 0 THEN old ELSE value[1]

\* A parse that takes the next token once none of the calls remain.
ObservedAndRotated(c, q) ==
    [c EXCEPT !.authorization = IF q.remaining = <<0>> THEN Undefined ELSE @,
              !.ratereset = OrElse(HeaderOf(q, "x-rate-limit", "reset"), @),
              !.ratelimit = OrElse(HeaderOf(q, "x-rate-limit", "limit"), @),
              !.remaining = OrElse(HeaderOf(q, "x-rate-limit", "remaining"), @)]

\* parse: mana.ratereset, mana.ratelimit and mana.remaining after a response
\* with the rate limit headers q.
Observed(c, q) ==
    [c EXCEPT !.ratereset = OrElse(HeaderOf(q, "x-rate-limit", "reset"), @),
              !.ratelimit = OrElse(HeaderOf(q, "x-rate-limit", "limit"), @),
              !.remaining = OrElse(HeaderOf(q, "x-rate-limit", "remaining"), @)]

\* The client after construction: no authorization, the quota fields zero.
NewClient == [authorization |-> Undefined, ratelimit |-> 0, remaining |-> 0, ratereset |-> 0]

\* The headers object of a request, by key ( Undefined: no such key ).
HeaderKeys == {"User-Agent", "user-agent", "Authorization", "authorization",
               "Accept", "accept"}
ToLowerCase(s) ==
    CASE s = "User-Agent" -> "user-agent"
      [] s = "Authorization" -> "authorization"
      [] s = "Accept" -> "accept"
      [] OTHER -> s
NoSent == [k \in HeaderKeys |-> Undefined]

\* 'mana/'+ this.version +' node/'+ process.version
UserAgent == "mana/" \o "0.0.0" \o " node/" \o "v0.10"

\* The headers a caller passes: each header absent, under its exact name or
\* under its lower-case name.
Supplied(key, values) ==
    {[k \in {key, ToLowerCase(key)} |-> Undefined]}
    \cup {[k \in {key, ToLowerCase(key)} |-> IF k = name THEN v ELSE Undefined] :
            name \in {key, ToLowerCase(key)}, v \in values}
SuppliedHeaders ==
    {[k \in HeaderKeys |->
        CASE k \in DOMAIN ua -> ua[k] [] k \in DOMAIN au -> au[k] [] OTHER -> ac[k]] :
        ua \in Supplied("User-Agent", {"curl"}),
        au \in Supplied("Authorization", {"Basic abc"}),
        ac \in Supplied("Accept", {"text/html", "application/json"})}

\* The list of default headers send goes through.
DefaultHeaders(auth) ==
    << [key |-> "User-Agent", value |-> UserAgent],
       [key |-> "Authorization", value |-> auth],
       [key |-> "Accept", value |-> "application/json"] >>

\* A forEach that only looks for the exact key.
EachExactOnly(h, header) ==
    IF h[header.key] # Undefined \/ ~Truthy(header.value)
    THEN h
    ELSE [h EXCEPT ![header.key] = header.value]

\* The body of the forEach: the default is set unless the key or its
\* lower-case form is in the headers, or the default has no value.
Each(h, header) ==
    IF \/ h[header.key] # Undefined
       \/ h[ToLowerCase(header.key)] # Undefined
       \/ ~Truthy(header.value)
    THEN h
    ELSE [h EXCEPT ![header.key] = header.value]

\* options.headers after the forEach over the default headers.
Defaults(h, auth) ==
    LET d == DefaultHeaders(auth) IN Each(Each(Each(h, d[1]), d[2]), d[3])

TokensOff ==
    /\ tokens = <<>>
    /\ tpc = "off"
    /\ client = NewClient
    /\ now = 0
    /\ rolled = "none"
    /\ sent = NoSent
    /\ handled = <<>>

TwinOff ==
    /\ jobsRun = <<>>
    /\ stores = [k \in {"sync", "async"} |-> store]
    /\ founds = [k \in {"sync", "async"} |-> NoEntry]


\* ------------------ the callback send hands to fireforget, on its own

\* What a cache can hand to a callback, with the class mana.type gives it.
Value(type, etag, data) == [type |-> type, etag |-> etag, data |-> data]
UndefinedValue == Value("undefined", Undefined, Undefined)
LookupValues ==
    {UndefinedValue, Value("null", Undefined, Undefined),
     Value("string", Undefined, "d1"), Value("array", Undefined, "d1")}
    \cup {Value("object", e, d) : e \in {"v1", "v2"}, d \in {"d0", "d1"}}

\* Mana.prototype.type: the lower-case class name of a value.
Type(of) == of.type

KeptDespiteError(err, value) == IF Type(value) # "object" THEN UndefinedValue ELSE value

\* The test at the head of the callback: what `cache` is after it.
Kept(err, value) == IF err \/ Type(value) # "object" THEN UndefinedValue ELSE value

\* If-None-Match after the callback's `if (cache)`.
Validator(entry, header) == IF entry # UndefinedValue THEN entry.etag ELSE header

LookupOff ==
    /\ lkGiven = [err |-> FALSE, value |-> UndefinedValue]
    /\ lkpc = "off"
    /\ lkCache = UndefinedValue
    /\ lkHeader = Undefined
    /\ lkAnswer = <<>>
    /\ lkBranch = "none"

\* fn(err, cache) is called: the entry is kept or dropped, the header set,
\* and downgrade sends the request.
LookupCallback ==
    /\ lkpc = "new"
    /\ lkCache' = Kept(lkGiven.err, lkGiven.value)
    /\ lkHeader' = Validator(lkCache', lkHeader)
    /\ lkpc' = "called"
    /\ UNCHANGED <<lkGiven, lkAnswer, lkBranch, mainVars, chainVars, tokenVars,
                   twinVars, optionVars>>

\* The transport answers the request: parse picks its branch.
LookupAnswer(a) ==
    /\ lkpc = "called"
    /\ lkAnswer' = <<a>>
    /\ lkBranch' = Branch(a, lkCache # UndefinedValue)
    /\ lkpc' = "answered"
    /\ UNCHANGED <<lkGiven, lkCache, lkHeader, mainVars, chainVars, tokenVars,
                   twinVars, optionVars>>

\* --------------------- the back off configuration of one send call

\* The prototype's defaults.
DefaultRetries == 3
DefaultFactor == 2
DefaultMinDelay == "100 ms"
DefaultMaxDelay == "60 seconds"

\* ms, on the durations used here: a string becomes its milliseconds.
Ms(text) ==
    CASE text = "100 ms" -> 100
      [] text = "200 ms" -> 200
      [] text = "1 seconds" -> 1000
      [] text = "30 seconds" -> 30000
      [] text = "60 seconds" -> 60000

\* The options a caller can pass: a key is absent ( <<>> ) or has a value.
OptionObjects ==
    [retries : {<<>>, <<0>>, <<2>>},
     retires : {<<>>, <<5>>},
     mindelay : {<<>>, <<"200 ms">>, <<"1 seconds">>},
     maxdelay : {<<>>, <<"30 seconds">>},
     factor : {<<>>, <<3>>},
     backoff : {<<>>}]

In(key, object) == object[key] # <<>>

\* The object send assigns to options.backoff ( <<>>: undefined ).
BackoffConfig(object) ==
    [minDelay |-> <<Ms(IF In("mindelay", object) THEN object.mindelay[1] ELSE DefaultMinDelay)>>,
     maxDelay |-> <<Ms(IF In("maxdelay", object) THEN object.maxdelay[1] ELSE DefaultMaxDelay)>>,
     retries |-> IF In("retries", object) THEN object.retires ELSE <<DefaultRetries>>,
     factor |-> IF In("factor", object) THEN object.factor ELSE <<DefaultFactor>>]

OptionsOff ==
    /\ options = [retries |-> <<>>, retires |-> <<>>, mindelay |-> <<>>,
                  maxdelay |-> <<>>, factor |-> <<>>, backoff |-> <<>>]
    /\ opc = "off"

\* send is called with the options object: it gets its back off object.
SendOptions ==
    /\ opc = "new"
    /\ options' = [options EXCEPT !.backoff = <<BackoffConfig(options)>>]
    /\ opc' = "sent"
    /\ UNCHANGED <<mainVars, chainVars, tokenVars, twinVars, lookupVars>>

\* tokenizer is called: this.tokens becomes the pool.
Tokenize ==
    /\ tpc \in {"raw", "pool"}
    /\ tokens' = Tokenizer(tokens)
    /\ tpc' = "pool"
    /\ UNCHANGED <<client, now, rolled, sent, handled, mainVars, chainVars, twinVars,
                   lookupVars, optionVars>>

\* roll is called: the observed quota is written onto the active token, the
\* tokens are checked for availability and the best available one becomes
\* the active one; with several equally good ones any of them may.
Roll ==
    /\ tpc = "pool"
    /\ LET applied == ApplyObservedQuota(tokens, client)
           checked == [i \in 1..Len(applied) |-> Renewed(applied[i], now)]
           best == Best(checked, now)
       IN
       /\ tokens' = checked
       /\ IF best = {}
          THEN /\ rolled' = "false"
               /\ client' = client
          ELSE /\ rolled' = "true"
               /\ \E i \in best :
                    client' = [client EXCEPT !.authorization = checked[i].authorization]
    /\ UNCHANGED <<tpc, now, sent, handled, mainVars, chainVars, twinVars,
                   lookupVars, optionVars>>

\* A second passes.
Tick ==
    /\ now < MaxTime
    /\ now' = now + 1
    /\ UNCHANGED <<tokens, tpc, client, rolled, sent, handled, mainVars, chainVars, twinVars,
                   lookupVars, optionVars>>

\* parse, as far as the client's fields go: a response that is no error, no
\* cache hit and has a valid status updates the quota fields (before the
\* body is parsed).  The client of this specification has no cache.
ParseQuota(a, q) ==
    /\ client' = IF a.error \/ InvalidStatus(a.status) THEN client ELSE Observed(client, q)
    /\ handled' = <<a>>
    /\ UNCHANGED <<tokens, tpc, now, rolled, sent, mainVars, chainVars, twinVars,
                   lookupVars, optionVars>>

\* send, as far as the headers go: the headers the caller passed are filled
\* with the defaults.
SendHeaders(h) ==
    /\ sent' = Defaults(h, client.authorization)
    /\ UNCHANGED <<tokens, tpc, client, now, rolled, handled, mainVars, chainVars, twinVars,
                   lookupVars, optionVars>>

\* A client constructed with any tokens list, before tokenizer is called.
TokenizerInit ==
    /\ InitMain
    /\ LookupOff
    /\ OptionsOff
    /\ input = MirrorList
    /\ rest = <<>>
    /\ handed = <<>>
    /\ cpc = "off"
    /\ TwinOff
    /\ tokens \in TokenLists
    /\ tpc = "raw"
    /\ client = NewClient
    /\ now = 0
    /\ rolled = "none"
    /\ sent = NoSent
    /\ handled = <<>>

TokenizerNext == Tokenize

\* tokenizer on every tokens list.
TokenizerSpec == TokenizerInit /\ [][TokenizerNext]_vars

\* The pools tokenizer makes.
Pools == {Tokenizer(list) : list \in TokenLists}

\* A client whose tokens list has been through tokenizer.
TokenInit ==
    /\ InitMain
    /\ LookupOff
    /\ OptionsOff
    /\ input = MirrorList
    /\ rest = <<>>
    /\ handed = <<>>
    /\ cpc = "off"
    /\ TwinOff
    /\ tokens \in Pools
    /\ tpc = "pool"
    /\ client = NewClient
    /\ now = 0
    /\ rolled = "none"
    /\ sent = NoSent
    /\ handled = <<>>

TokenNext ==
    \/ Roll
    \/ Tick
    \/ \E a \in QuotaAnswers : \E q \in HeadersWith(a) : ParseQuota(a, q)

\* Tokens, quota and time.
TokenSpec == TokenInit /\ [][TokenNext]_vars

HeaderNext ==
    \/ Roll
    \/ \E h \in SuppliedHeaders : SendHeaders(h)

\* The pool and the headers of outgoing requests.
HeaderSpec == TokenInit /\ [][HeaderNext]_vars

\* ------------------------- fireforget against the two cache interfaces

\* Number of jobs handed to fireforget in one behaviour.
MaxJobs == 3

\* The interfaces a backend can have: get(key) and set(key, value), or
\* get(key, fn) and set(key, value, fn).
Interfaces == {"sync", "async"}

\* The jobs send and parse hand to fireforget.
Jobs ==
    {GetJob(0, u) : u \in Urids}
    \cup {SetJob(0, u, e, "d1") : u \in Urids, e \in {"v1", "v2"}}

\* fireforget's `immediate` for one job, run on a client with a synchronous
\* backend and on a client with an asynchronous one that holds the same.
Fireforget(job) ==
    /\ Len(jobsRun) < MaxJobs
    /\ jobsRun' = Append(jobsRun, job)
    /\ founds' = [k \in Interfaces |->
                    IF job.op = "get"
                    THEN Lookup(CacheOf(ImmediateReceiver, k), stores[k], job.key)
                    ELSE founds[k]]
    /\ stores' = [k \in Interfaces |->
                    IF job.op = "set"
                    THEN Stored(CacheOf(ImmediateReceiver, k), stores[k], job)
                    ELSE stores[k]]
    /\ UNCHANGED <<mainVars, chainVars, tokenVars, lookupVars, optionVars>>

TwinInit ==
    /\ InitMain
    /\ LookupOff
    /\ OptionsOff
    /\ input = MirrorList
    /\ rest = <<>>
    /\ handed = <<>>
    /\ cpc = "off"
    /\ TokensOff
    /\ jobsRun = <<>>
    /\ stores = [k \in Interfaces |-> store]
    /\ founds = [k \in Interfaces |-> NoEntry]

TwinNext == \E job \in Jobs : Fireforget(job)

\* The same jobs against a backend of either interface.
TwinSpec == TwinInit /\ [][TwinNext]_vars

\* The callback called with every pair of arguments a cache can give.
LookupInit ==
    /\ InitMain
    /\ OptionsOff
    /\ input = MirrorList
    /\ rest = <<>>
    /\ handed = <<>>
    /\ cpc = "off"
    /\ TokensOff
    /\ TwinOff
    /\ lkGiven \in [err : BOOLEAN, value : LookupValues]
    /\ lkpc = "new"
    /\ lkCache = UndefinedValue
    /\ lkHeader = Undefined
    /\ lkAnswer = <<>>
    /\ lkBranch = "none"

LookupNext == LookupCallback \/ \E a \in Answers : LookupAnswer(a)

LookupSpec == LookupInit /\ [][LookupNext]_vars

\* send called with every options object of OptionObjects.
OptionInit ==
    /\ InitMain
    /\ LookupOff
    /\ input = MirrorList
    /\ rest = <<>>
    /\ handed = <<>>
    /\ cpc = "off"
    /\ TokensOff
    /\ TwinOff
    /\ options \in OptionObjects
    /\ opc = "new"

OptionNext == SendOptions

OptionSpec == OptionInit /\ [][OptionNext]_vars

\* The client of this model is constructed with Api and Mirrors; downgrade
\* is not called on its own.
Init ==
    /\ InitMain
    /\ LookupOff
    /\ OptionsOff
    /\ input = MirrorList
    /\ rest = <<>>
    /\ handed = <<>>
    /\ cpc = "off"
    /\ TokensOff
    /\ TwinOff

Spec == Init /\ [][Next]_vars

\* -------------------------------------------- a transport that answers 200

\* The 200 answers: with each body, with and without an etag.
OkAnswers == {a \in Answers : ~a.error /\ a.status = StatusOK}

OkNext ==
    \/ \E u \in Urids, m \in MethodInputs, h \in HeaderInputs, o \in 0..MaxReq :
          Send(u, m, h, o)
    \/ \E u \in Urids, m \in MethodInputs, h \in HeaderInputs, o \in 0..MaxReq :
          ReentrantSend(u, m, h, o)
    \/ Immediate
    \/ \E r \in ReqIds, a \in OkAnswers : Parse(r, a)
    \/ \E r \in ReqIds : BackoffFire(r)
    \/ Invoke
    \/ Return

\* send with servers that answer every transport call with a 200.
OkSpec == Init /\ [][OkNext]_vars

\* ------------------------------------------- downgrade on its own

\* The entries a list of roots is made of: two roots and the falsy values
\* null and ''.
Roots == {"https://a", "https://b", Null, ""}

\* The lists send can pass: [ api ].concat(mirrors) is never empty.
ChainInputs == UNION {[1..n -> Roots] : n \in 1..MaxChain}

\* What fn is handed, and what downgraded does with it.
Handed(c) == [err |-> c.err, root |-> c.root, does |-> Downgraded(c.err)]

\* downgrade(mirrors, fn): the source is noted, the list is filtered and
\* recursive is called once.
Downgrade ==
    /\ cpc = "new"
    /\ LET c == Candidate(Dedupe(input), Source(input)) IN
        /\ rest' = c.rest
        /\ handed' = <<Handed(c)>>
    /\ cpc' = "run"
    /\ UNCHANGED <<input, mainVars, tokenVars, twinVars,
                   lookupVars, optionVars>>

\* fn calls next(): recursive runs again on what is left.
NextCall ==
    /\ cpc = "run"
    /\ Len(handed) < MaxChain + 2
    /\ LET c == Candidate(rest, Source(input)) IN
        /\ rest' = c.rest
        /\ handed' = Append(handed, Handed(c))
    /\ UNCHANGED <<input, cpc, mainVars, tokenVars, twinVars,
                   lookupVars, optionVars>>

ChainInit ==
    /\ InitMain
    /\ LookupOff
    /\ OptionsOff
    /\ input \in ChainInputs
    /\ rest = <<>>
    /\ handed = <<>>
    /\ cpc = "new"
    /\ TokensOff
    /\ TwinOff

ChainNext == Downgrade \/ NextCall

ChainSpec == ChainInit /\ [][ChainNext]_vars

\* ------------------------------------------------------------- claims

Sent(r) == r <= issued

\* The pair callback c is invoked with once all() has taken its list: the
\* pair being delivered while c waits its turn, else what c received.
Fate(c) == IF c \in Range(drainQ) THEN drainOut ELSE delivered[c]

\* Request r is a GET that found an entry for its identifier when it was sent.
FoundEntry(r) == Sent(r) /\ arg[r].method = "GET" /\ joined[r] # <<>>

\* Nothing is scheduled any more: no callback runs, no setImmediate job, no
\* transport call and no back off timer is pending.
Quiescent ==
    /\ Idle
    /\ immq = <<>>
    /\ \A r \in ReqIds : pc[r] \notin {"lookup", "transport", "backoff"}

\* C1 (as stated): a GET in flight for X and a second GET for X sent before
\* it completes are served by exactly one transport call, and both callbacks
\* get the same (error, data) pair.
C1_ExactlyOneTransportCall ==
    \A r \in ReqIds : FoundEntry(r) =>
        \A c \in Range(joined[r]) :
            /\ arg[c].method = "GET" => Len(tried[c]) + Len(tried[r]) <= 1
            /\ Fate(c) = Fate(r)

\* C1 (amended): a GET sent while an entry for its identifier exists makes
\* no transport call of its own, whatever its headers (the calls of the
\* request it joined, its retries included, are the only ones), and its
\* callback and the callbacks it found queued are invoked by the same
\* completion with the same (error, data) pair.
C1_SecondGetAddsNoCall ==
    \A r \in ReqIds : FoundEntry(r) =>
        /\ tried[r] = <<>>
        /\ pc[r] = "waiting"
        /\ \A c \in Range(joined[r]) : Fate(c) = Fate(r)

C1_Witness ==
    \E r \in ReqIds :
        /\ FoundEntry(r)
        /\ arg[Head(joined[r])].method = "GET"
        /\ delivered[r] # NoDelivery
        /\ delivered[Head(joined[r])] = delivered[r]
        /\ Len(tried[Head(joined[r])]) >= 2

\* C2: no callback passed to send is invoked more than once, over any
\* interleaving of requests, retries, back off timers and completions.
C2_CallbackAtMostOnce ==
    \A i, j \in 1..Len(invoked) : invoked[i] = invoked[j] => i = j

C2_Witness ==
    \E c, r \in ReqIds :
        /\ c # r
        /\ arg[c].urid = arg[r].urid
        /\ delivered[c] # NoDelivery
        /\ Len(tried[c]) >= 3
        /\ pc[c] = "done" /\ pc[r] = "done"
        /\ Idle

\* C3: once nothing is pending any more (every transport call answered,
\* every lookup done, every timer fired), every callback passed to send has
\* been invoked with a success, a 404 error or the exhaustion error.
C3_EveryCallbackGetsTerminalOutcome ==
    Quiescent =>
        \A c \in ReqIds : Sent(c) => delivered[c].out.err \in {"none", "notfound", "exhausted"}

\* C4: the callbacks one completion invokes are invoked in the order they
\* were enqueued (send numbers its callbacks in call order and pushes each
\* during the call), all of the detached list, all with the same pair.
C4_WaitersFifoSameOutcome ==
    /\ \A i, j \in 1..Len(invoked) :
          (i < j /\ delivered[invoked[i]].by = delivered[invoked[j]].by) =>
              /\ invoked[i] < invoked[j]
              /\ delivered[invoked[i]].out = delivered[invoked[j]].out
    /\ (running # 0 /\ drainQ = <<>>) =>
          \A c \in Range(drainAll) : delivered[c] = drainOut

C4_Witness ==
    /\ Idle
    /\ \E c, d \in ReqIds :
          /\ c # d
          /\ delivered[c] # NoDelivery
          /\ delivered[c] = delivered[d]

\* Request r was sent from inside a callback that the completion of r's own
\* identifier was invoking.
Reissued(r) == Sent(r) /\ during[r].by # 0 /\ arg[r].urid = arg[during[r].by].urid

\* C5: the entry is removed before any waiter is invoked, so a send for the
\* same identifier from inside a callback is a fresh request: it is not
\* appended to the list being drained, what it finds queued was itself sent
\* from inside this drain, with no entry it is dispatched, and it is not
\* invoked with the outcome that is being delivered.
C5_ReissueInsideCallbackIsFresh ==
    /\ \A c \in Range(drainAll) : \A u \in Urids : c \notin Range(fnqueue[u])
    /\ \A r \in ReqIds : Reissued(r) =>
          /\ Range(joined[r]) \cap Range(during[r].list) = {}
          /\ \A c \in Range(joined[r]) : during[c] = during[r]
          /\ joined[r] = <<>> => pc[r] # "waiting"
          /\ (~Idle /\ drainOut.by = delivered[during[r].by].by) => r \notin Range(drainQ)
          /\ delivered[r] # NoDelivery => delivered[r].by # delivered[during[r].by].by

C5_Witness ==
    \E r \in ReqIds :
        /\ Reissued(r)
        /\ arg[r].method = "GET"
        /\ tried[r] # <<>>
        /\ delivered[r] # NoDelivery

\* C6: a request that is not a GET is never coalesced: it is dispatched,
\* its callback shares no list with another callback, it is invoked only by
\* its own completion and its completion invokes no other callback.
C6_NonGetNeverCoalesced ==
    \A r \in ReqIds : (Sent(r) /\ arg[r].method # "GET") =>
        /\ pc[r] # "waiting"
        /\ \A u \in Urids : r \in Range(fnqueue[u]) => fnqueue[u] = <<r>>
        /\ delivered[r].by \in {0, r}
        /\ \A c \in ReqIds : delivered[c].by = r => c = r

\* C7: a transport error on an attempt makes the request advance to the
\* next mirror, or to the back off when the chain is exhausted (which may
\* report exhaustion); nothing else is delivered for that attempt.
C7_TransportFailureRetries ==
    [][\A r \in ReqIds :
          Parse(r, TransportError) =>
              \/ pc'[r] \in {"transport", "backoff"} /\ drainQ' = <<>>
              \/ result'[r] = Exhausted]_vars

\* C8: the only errors ever passed to a callback are the 404 error and the
\* exhaustion error.
C8_OnlyNotFoundAndExhaustionDelivered ==
    \A c \in ReqIds : delivered[c].out.err \in {"pending", "none", "notfound", "exhausted"}

\* C9: a 404 answer, for any method, Accept header and body, ends the
\* request with the 404 error: no further transport call, no mirror taken
\* off the chain, no back off started.
C9_NotFoundIsTerminal ==
    [][\A r \in ReqIds, a \in Answers :
          (a.status = StatusNotFound /\ Parse(r, a)) =>
              /\ pc'[r] = "done"
              /\ result'[r].err = "notfound"
              /\ tried'[r] = tried[r]
              /\ chain'[r] = chain[r]
              /\ attempt' = attempt]_vars

\* C10: a dispatched request whose identifier has an entry in the cache
\* backend carries If-None-Match equal to the stored etag on its transport
\* calls.
C10_StoredEtagSentAsIfNoneMatch ==
    \A r \in ReqIds :
        (tried[r] # <<>> /\ cacheKind # "none" /\ store[arg[r].urid] # NoEntry) =>
            hdrs[opts[r]].IfNoneMatch = store[arg[r].urid].etag

\* The cache backend is configured and holds an entry for r's identifier.
Cached(r) == cacheKind # "none" /\ store[arg[r].urid] # NoEntry

\* C11: a 304 answer for a request whose identifier the cache backend holds
\* ends the request at once with the cached entry's data as the success
\* payload, without another transport call.
C11_NotModifiedServesCachedData ==
    [][\A r \in ReqIds :
          (Parse(r, Res(StatusNotModified, "", Undefined)) /\ Cached(r)) =>
              /\ pc'[r] = "done"
              /\ result'[r] = Success(store[arg[r].urid].data)
              /\ tried'[r] = tried[r]]_vars

\* C12: with a cache backend, a GET answered 200 with an etag and a parsable
\* body delivers the parsed payload and schedules the write, and the write,
\* once it runs, leaves the entry (etag, parsed payload) under the request
\* identifier.
C12_OkWithEtagIsCached ==
    [][/\ \A r \in ReqIds, b \in Bodies, e \in Etags \ {Undefined} :
            ( /\ Parse(r, Res(StatusOK, b, e))
              /\ arg[r].method = "GET"
              /\ ShouldParse(r, b) /\ Parsable(b) /\ ~Throws(r, b) ) =>
                /\ result'[r] = Success(JSONParse(b))
                /\ immq' = Append(immq, SetJob(r, arg[r].urid, e, JSONParse(b)))
       /\ (cacheKind # "none" /\ Immediate /\ Head(immq).op = "set") =>
                store'[Head(immq).key] = [etag |-> Head(immq).etag, data |-> Head(immq).data]
      ]_vars

C14_DeliveryIndependentOfCacheWrite ==
    /\ [](\A i \in 1..Len(immq) : immq[i].op = "set" =>
              /\ pc[immq[i].r] = "done"
              /\ result[immq[i].r] = Success(immq[i].data))
    /\ [][(Immediate /\ Head(immq).op = "set") =>
              UNCHANGED <<pc, result, delivered, invoked, fnqueue, drainQ, drainOut>>]_vars

C14_Witness ==
    \E i \in 1..Len(immq) :
        /\ immq[i].op = "set"
        /\ delivered[immq[i].r].out = Success(immq[i].data)
        /\ delivered[immq[i].r].by = immq[i].r

\* The roots handed out without an error, in order.
RECURSIVE GoodRoots(_)
GoodRoots(hs) ==
    IF hs = <<>> THEN <<>>
    ELSE (IF Head(hs).err THEN <<>> ELSE <<Head(hs).root>>) \o GoodRoots(Tail(hs))

\* The chain downgrade built: what it handed out and what it still holds.
BuiltChain == GoodRoots(handed) \o rest

\* C15: the chain built from the list [primary] + mirrors holds exactly the
\* truthy entries of the list, each once, in the order of their first
\* occurrence; a truthy primary is first.
C15_ChainIsFilteredDeduped ==
    cpc = "run" =>
        /\ Range(BuiltChain) = {x \in Range(input) : Truthy(x)}
        /\ \A i, j \in 1..Len(BuiltChain) :
              i < j => IndexOf(input, BuiltChain[i]) < IndexOf(input, BuiltChain[j])
        /\ Truthy(input[1]) => BuiltChain[1] = input[1]

C15_Witness ==
    /\ cpc = "run"
    /\ Len(input) = MaxChain
    /\ Truthy(input[1])
    /\ Len(BuiltChain) = 2
    /\ \E i \in 1..Len(input) : ~Truthy(input[i])

\* C16: the cursor moves left to right: what is left is a suffix of the
\* chain, every root is handed out at most once, in chain order, and after
\* the first exhaustion no root is handed out any more.
C16_CursorLeftToRight ==
    /\ \A i, j \in 1..Len(handed) :
          (i < j /\ ~handed[j].err) =>
              /\ ~handed[i].err
              /\ handed[i].root # handed[j].root
              /\ IndexOf(input, handed[i].root) < IndexOf(input, handed[j].root)
    /\ \A i \in 1..Len(handed), k \in 1..Len(rest) :
          ~handed[i].err =>
              /\ handed[i].root # rest[k]
              /\ IndexOf(input, handed[i].root) < IndexOf(input, rest[k])
    /\ \A i \in 1..Len(handed) : handed[i].err => rest = <<>>

C16_Witness ==
    /\ Len(handed) >= 3
    /\ ~handed[2].err
    /\ handed[3].err
    /\ Len(input) = MaxChain

\* C17: an exhausted chain hands out the source (the first element of the
\* list downgrade was called with) together with the error, on every further
\* call, only once every root of the chain was handed out, and downgraded
\* answers it with the back off, not with a request.
C17_ExhaustedChainReturnsSource ==
    \A i \in 1..Len(handed) :
        /\ handed[i].err =>
              /\ handed[i].root = input[1]
              /\ handed[i].does = "back"
              /\ i > Cardinality({x \in Range(input) : Truthy(x)})
              /\ \A j \in i..Len(handed) : handed[j].err
        /\ ~handed[i].err => handed[i].does = "request"

C17_Witness ==
    /\ Len(handed) >= 4
    /\ ~handed[2].err
    /\ handed[3].err /\ handed[4].err
    /\ handed[4].root = "https://a"

\* The chain of the modelled client.
ClientChain == Dedupe(MirrorList)

\* No other request was sent with the options object of request r.
OwnOptions(r) == Sent(r) /\ \A q \in ReqIds \ {r} : opts[q] # opts[r]

\* C18 (as stated): after a back off delay the attempt sequence restarts
\* with a rebuilt chain: when the call made after the first delay is answered
\* with an unexpected status, the first mirror is requested next.
C18_BackoffRebuildsChain ==
    [][\A r \in ReqIds, a \in Answers :
          ( /\ Parse(r, a)
            /\ OwnOptions(r)
            /\ Len(tried[r]) = Len(ClientChain) + 1
            /\ ~a.error /\ a.status \in OtherStatuses ) =>
              /\ pc'[r] = "transport"
              /\ tried'[r] = Append(tried[r], Resolve(ClientChain[2], arg[r].urid))]_vars

\* C18 (amended): no chain is rebuilt after a back off delay.  A request
\* waiting for its timer, or past the calls of its chain, has an empty
\* chain; for a request with an options object of its own every call after
\* the chain is a call to the source, and there are at most as many of them
\* as the retry budget allows.
C18_BackoffRetriesSourceOnly ==
    \A r \in ReqIds :
        /\ pc[r] = "backoff" => chain[r] = <<>>
        /\ Len(tried[r]) > Len(ClientChain) => chain[r] = <<>>
        /\ OwnOptions(r) =>
              /\ Len(tried[r]) <= Len(ClientChain) + Retries
              /\ \A i \in 1..Len(tried[r]) :
                    tried[r][i] = Resolve(IF i <= Len(ClientChain)
                                             THEN ClientChain[i]
                                             ELSE Source(MirrorList),
                                         arg[r].urid)

C18_Witness ==
    \E r \in ReqIds :
        /\ OwnOptions(r)
        /\ Len(tried[r]) = Len(ClientChain) + 1
        /\ pc[r] = "done"
        /\ delivered[r].out = Exhausted

\* C19: a request that ends in a failure other than the 404 ends with the
\* exhaustion error, after its chain was used up and at most Retries back
\* off retries.
C19_FailuresEndInExhaustion ==
    \A r \in ReqIds :
        (pc[r] = "done" /\ result[r].err \notin {"none", "notfound"}) =>
            /\ result[r] = Exhausted
            /\ chain[r] = <<>>
            /\ Len(tried[r]) <= Len(ClientChain) + Retries

\* C20: the handlers of one request count attempts on the back off object
\* of that request only: an answer for request q leaves the attempt of the
\* back off object of every request for a different identifier as it was.
C20_BackoffStateIsPerRequest ==
    [][\A q \in ReqIds, a \in Answers :
          Parse(q, a) =>
              \A b \in ReqIds \ {q} :
                  (Sent(b) /\ arg[b].urid # arg[q].urid) => attempt'[b] = attempt[b]]_vars

\* --------------------------------------------- claims on the token pool

\* Availability as the specification words it: calls remain, or the window
\* has reset, or the token never received a quota update.
Usable(t, n) == t.remaining > 0 \/ n >= t.ratereset \/ Pristine(t)

\* The tokens of the pool equal to the client's active authorization.
Active(pool, c) == {i \in 1..Len(pool) : pool[i].authorization = c.authorization}

C22_RollSelectsBest ==
    [][(Roll /\ rolled' = "true") =>
        \E i \in 1..Len(tokens') :
            /\ client'.authorization = tokens'[i].authorization
            /\ Usable(tokens'[i], now)
            /\ \A j \in 1..Len(tokens') : Usable(tokens'[j], now) =>
                /\ tokens'[j].remaining <= tokens'[i].remaining
                /\ tokens'[j].remaining = tokens'[i].remaining =>
                       tokens'[j].ratelimit <= tokens'[i].ratelimit]_vars

\* C22 (witness): after a roll two available tokens have as many remaining
\* calls and the active one is the one with the higher rate limit.
C22_Witness ==
    /\ rolled = "true"
    /\ \E i, j \in 1..Len(tokens) :
        /\ Usable(tokens[i], now) /\ Usable(tokens[j], now)
        /\ tokens[i].remaining = tokens[j].remaining
        /\ tokens[i].ratelimit > tokens[j].ratelimit
        /\ client.authorization = tokens[i].authorization

\* C23: roll returns true exactly when a token is available, and then the
\* active token is an available one; when none is available it returns
\* false and the active authorization stays what it was.
C23_RollReturnsWhetherSelected ==
    [][Roll =>
        /\ rolled' = "true" <=> \E i \in 1..Len(tokens') : Usable(tokens'[i], now)
        /\ rolled' = "true" =>
              \E i \in Active(tokens', client') : Usable(tokens'[i], now)
        /\ rolled' = "false" => client'.authorization = client.authorization]_vars

\* C23 (witness): a roll returned false for a client with an active token.
C23_Witness ==
    /\ rolled = "false"
    /\ Active(tokens, client) # {}
    /\ \A i \in 1..Len(tokens) : ~Usable(tokens[i], now)

\* C24: roll writes the client's rate limit, remaining calls and reset time
\* onto the tokens with the client's active authorization, before it checks
\* and selects, and onto no other token: every other token is left as the
\* availability check leaves it.
C24_RollWritesObservedQuota ==
    [][Roll =>
        /\ Len(tokens') = Len(tokens)
        /\ \A i \in 1..Len(tokens) :
            IF i \in Active(tokens, client)
            THEN tokens'[i] = Renewed([tokens[i] EXCEPT !.ratelimit = client.ratelimit,
                                                        !.remaining = client.remaining,
                                                        !.ratereset = client.ratereset], now)
            ELSE tokens'[i] = Renewed(tokens[i], now)]_vars

\* C24 (witness): the active token holds the client's quota fields, in a
\* window that has not reset, next to a token that was never written.
C24_Witness ==
    /\ rolled # "none"
    /\ client.ratelimit > 0
    /\ \E i, j \in 1..Len(tokens) :
        /\ tokens[i].ratelimit = client.ratelimit
        /\ tokens[i].remaining = client.remaining
        /\ tokens[i].ratereset = client.ratereset
        /\ tokens[i].ratereset > now
        /\ Pristine(tokens[j])

\* C25: tokenizer leaves one Token per distinct secret of the list:
\* undefined entries are gone, duplicates are collapsed, strings and Token
\* instances are both taken, each authorization is 'token ' + secret, and a
\* second call changes nothing.
C25_TokenizerMakesPool ==
    [][Tokenize =>
        /\ \A i \in 1..Len(tokens') :
            /\ tokens'[i].kind = "Token"
            /\ tokens'[i].authorization = "token " \o tokens'[i].secret
            /\ \A j \in 1..Len(tokens') : tokens'[j].secret = tokens'[i].secret => j = i
        /\ {tokens'[i].secret : i \in 1..Len(tokens')}
             = {tokens[i].secret : i \in {k \in 1..Len(tokens) : tokens[k].kind # "undefined"}}
        /\ tpc = "pool" => tokens' = tokens]_vars

\* C25 (witness): the pool holds a Token for each of the two secrets.
C25_Witness ==
    /\ tpc = "pool"
    /\ {tokens[i].authorization : i \in 1..Len(tokens)} = {"token foo", "token bar"}
    /\ Len(tokens) = Cardinality(Secrets)

DefaultOf(key, c) ==
    CASE key = "User-Agent" -> UserAgent
      [] key = "Authorization" -> c.authorization
      [] key = "Accept" -> "application/json"

\* C27: send sets User-Agent, Authorization (the active authorization) and
\* Accept: application/json only where the caller supplied the header under
\* neither its exact nor its lower-case name; a supplied header is left as
\* it is under the name it came with and appears under no second name; no
\* Authorization is added for a client without active authorization.
C27_DefaultsOnlyWhenAbsent ==
    [][\A h \in SuppliedHeaders : SendHeaders(h) =>
        \A key \in {"User-Agent", "Authorization", "Accept"} :
            LET lower == ToLowerCase(key) IN
            /\ sent'[lower] = h[lower]
            /\ IF h[key] # Undefined \/ h[lower] # Undefined
               THEN sent'[key] = h[key]
               ELSE sent'[key] = DefaultOf(key, client)]_vars

\* C27 (witness): a request of a client with an active token went out with
\* the caller's lower-case accept and user-agent, without a second Accept
\* or User-Agent, and with the client's Authorization.
C27_Witness ==
    /\ client.authorization # Undefined
    /\ sent["accept"] = "text/html" /\ sent["Accept"] = Undefined
    /\ sent["user-agent"] = "curl" /\ sent["User-Agent"] = Undefined
    /\ sent["Authorization"] = client.authorization
    /\ sent["authorization"] = Undefined

\* C28: a 200 response with a body that parses and the rate limit headers
\* limit = L, remaining = R, reset = T leaves the client with ratelimit = L,
\* remaining = R and ratereset = T, for all L, R, T >= 0.
C28_QuotaFollowsHeaders ==
    [][\A q \in RateHeaders :
        (/\ ParseQuota(Res(StatusOK, "j1", Undefined), q)
         /\ <<>> \notin {q.limit, q.remaining, q.reset}) =>
            /\ client'.ratelimit = q.limit[1]
            /\ client'.remaining = q.remaining[1]
            /\ client'.ratereset = q.reset[1]]_vars

MovesOn(r) ==
    /\ chain[r] # <<>> =>
          /\ pc'[r] = "transport"
          /\ chain'[r] = Tail(chain[r])
          /\ tried'[r] = Append(tried[r], Resolve(Head(chain[r]), arg[r].urid))
    /\ chain[r] = <<>> =>
          /\ tried'[r] = tried[r]
          /\ \/ pc'[r] = "backoff"
             \/ pc'[r] = "done" /\ result'[r] = Exhausted
    /\ pc'[r] # "done" =>
          /\ result'[r] = NoOutcome
          /\ delivered' = delivered
          /\ drainQ' = <<>>
          /\ fnqueue' = fnqueue
    /\ immq' = immq
    /\ store' = store

\* C31: a response whose status is neither 200, nor 404, nor a 304 for a
\* request that found a cache entry, is handed to no callback: the next
\* root of the chain is requested, or with the chain used up the back off
\* starts.
C31_InvalidStatusIsRetried ==
    [][\A r \in ReqIds, a \in Answers :
        (/\ Parse(r, a)
         /\ ~a.error
         /\ a.status \notin {StatusOK, StatusNotFound}
         /\ ~(a.status = StatusNotModified /\ cache[r] # NoEntry)) => MovesOn(r)]_vars

\* C31 (witness): a request for a text/html representation, whose body is
\* never parsed, was retried on a mirror and after a back off, and ended
\* with the exhaustion error.
C31_Witness ==
    \E r \in ReqIds :
        /\ OwnOptions(r)
        /\ hdrs[opts[r]].Accept = "text/html"
        /\ Len(tried[r]) > Len(ClientChain)
        /\ pc[r] = "done"
        /\ delivered[r].out = Exhausted

\* The Accept header request r goes out with, under whichever name it has.
Negotiated(r) ==
    IF hdrs[opts[r]].Accept # Undefined THEN hdrs[opts[r]].Accept
    ELSE hdrs[opts[r]].accept

\* C32: on a 200 the body is parsed as JSON unless the Accept header of the
\* request names text or html or the method is HEAD; then no parse is
\* attempted and the body as it came is delivered, for HEAD together with
\* the response.  This holds whether the Accept header was filled by send
\* or came from the caller under its exact or its lower-case name.
C32_ParseUnlessTextOrHead ==
    [][\A r \in ReqIds, a \in OkAnswers :
        Parse(r, a) =>
            IF arg[r].method = "HEAD"
            THEN result'[r] = HeadSuccess(a.status, a.body)
            ELSE IF Contains(Negotiated(r), "text") \/ Contains(Negotiated(r), "html")
                    \/ ~IsString(a.body)
            THEN result'[r] = Success(a.body)
            ELSE IF a.body = "j1"
            THEN result'[r] = Success("d1")
            ELSE MovesOn(r)]_vars

\* C33: when a request completes and fnqueue has no entry for its
\* identifier, nothing happens: no callback is invoked, fnqueue stays as it
\* is and no error is raised.
C33_CompletionWithoutEntryIsNoop ==
    [][\A r \in ReqIds :
        (/\ pc[r] # "done"
         /\ pc'[r] = "done"
         /\ fnqueue[arg[r].urid] = <<>>) =>
            /\ UNCHANGED <<fnqueue, drainQ, drainAll, drainOut, delivered, invoked, running>>
            /\ \A q \in ReqIds : pc'[q] = "thrown" => pc[q] = "thrown"]_vars

\* C33 (witness): two requests for one identifier have both completed and
\* both callbacks were invoked by the completion of one of them; the other
\* completion found no entry.
C33_Witness ==
    /\ Quiescent
    /\ \A r \in ReqIds : pc[r] = "done" /\ result[r] # NoOutcome
    /\ arg[1].urid = arg[2].urid
    /\ delivered[1].by = delivered[2].by
    /\ delivered[1].by # 0
    /\ Len(invoked) = 2


\* C34: a cache lookup that reports an error, or hands over something that
\* is not an object, is a miss: no entry is kept and no If-None-Match is
\* set, a 304 that answers the request is not answered from the cache but
\* moves on to the next mirror, and the only failure parse can report is
\* the transport's own.
C34_FailedLookupIsMiss ==
    (lkpc \in {"called", "answered"}
        /\ (lkGiven.err \/ Type(lkGiven.value) # "object")) =>
        /\ lkCache = UndefinedValue
        /\ lkHeader = Undefined
        /\ lkpc = "answered" =>
            /\ lkBranch # "cached"
            /\ (~lkAnswer[1].error /\ lkAnswer[1].status = StatusNotModified) =>
                    lkBranch = "next"
            /\ lkBranch = "failure" => lkAnswer[1].error

\* A lookup that reported an error along with an entry, and a 304 came.
C34_Witness ==
    /\ lkpc = "answered"
    /\ lkGiven.err
    /\ Type(lkGiven.value) = "object"
    /\ ~lkAnswer[1].error
    /\ lkAnswer[1].status = StatusNotModified
    /\ lkBranch = "next"


\* The three quota fields of the client.
QuotaOf(c) == <<c.ratelimit, c.remaining, c.ratereset>>

\* C35: the client's quota fields change only when parse handles a 200
\* whose body parses; every other answer leaves all three unchanged.
C35_QuotaOnlyOnParsedOk ==
    [][QuotaOf(client') # QuotaOf(client) =>
        \E q \in RateHeaders : ParseQuota(Res(StatusOK, "j1", Undefined), q)]_vars

\* C35 (amended): the client's quota fields change only when parse handles
\* an answer with status 200 or 404, whether or not its body parses; an
\* answer with any other status, a 304 and a transport failure leave all
\* three unchanged.
C35_QuotaOnlyOnOkOrNotFound ==
    [][QuotaOf(client') # QuotaOf(client) =>
        \E a \in QuotaAnswers :
            /\ ~a.error
            /\ a.status \in {StatusOK, StatusNotFound}
            /\ \E q \in HeadersWith(a) : ParseQuota(a, q)]_vars

\* A 404 was handled last and the client has a quota.
C35_Witness ==
    /\ handled = <<Res(StatusNotFound, "j1", Undefined)>>
    /\ client.remaining > 0
    /\ client.ratelimit > 0


\* What the caller asked for under a key, or the client's value for it.
Preferred(key, default) == IF In(key, options) THEN options[key] ELSE <<default>>

\* C36: the back off object send makes takes retries, mindelay, maxdelay
\* and factor from the options where the caller passed them and from the
\* client (3 retries, 100 ms, 60 s, factor 2) where it did not.
C36_OptionsTakePrecedence ==
    opc = "sent" =>
        /\ options.backoff[1].retries = Preferred("retries", DefaultRetries)
        /\ options.backoff[1].factor = Preferred("factor", DefaultFactor)
        /\ options.backoff[1].minDelay = <<Ms(Preferred("mindelay", DefaultMinDelay)[1])>>
        /\ options.backoff[1].maxDelay = <<Ms(Preferred("maxdelay", DefaultMaxDelay)[1])>>


\* The request whose send created the list callback c was put on.
Creator(c) == IF joined[c] = <<>> THEN c ELSE Head(joined[c])

\* Callback c was invoked by a completion of its own request, or it is a
\* GET that was coalesced and a request it found in flight completed.
ServedByOwnSequence(c) ==
    \/ delivered[c].by = c
    \/ pc[c] = "waiting" /\ delivered[c].by \in Range(joined[c])

\* The completion that invoked c belongs to no request older than the list.
NotDrainedByEarlier(c) == delivered[c].by >= Creator(c)

\* C37: every callback is invoked with the outcome of the transport calls
\* made for its own request or for the request in flight it was coalesced
\* onto, and the completion of a request never drains a list that a later
\* request created, whatever mix of GET and other requests is sent.
C37_OwnSequenceOnly ==
    \A c \in ReqIds : delivered[c].by # 0 =>
        /\ ServedByOwnSequence(c)
        /\ NotDrainedByEarlier(c)


\* Request r is in flight: queued for the cache lookup, waiting for the
\* transport or waiting for a back off timer.
InFlight(r) == Sent(r) /\ pc[r] \in {"lookup", "transport", "backoff"}

\* C38: fnqueue has an entry for an identifier only while a request for that
\* identifier is in flight; so once every request has its outcome fnqueue
\* is empty and no later GET can join an entry that nothing will complete.
C38_EntryOnlyWhileInFlight ==
    \A u \in Urids : fnqueue[u] # <<>> =>
        \E r \in ReqIds : InFlight(r) /\ arg[r].urid = u


\* C39: the transport calls made for one request never number more than
\* the roots of its deduplicated chain plus the allowed back off retries,
\* whatever the transport answers.
C39_TransportCallsBounded ==
    \A r \in ReqIds : Len(tried[r]) <= Len(ClientChain) + Retries

====
